---- MODULE Spec2Model ----
(***************************************************************************)
(* A model of thread_pool.ThreadPool (src/thread_pool.py): pools of worker *)
(* threads that drain a bounded Queue, an optional consumer thread that    *)
(* feeds the queue from an iterator, and forward(), which chains pools.    *)
(*                                                                         *)
(* Every Queue operation (put, get, task_done, join) runs under the        *)
(* queue's mutex and is one atomic step; the code between two queue        *)
(* operations of one thread is a step of its own, so the threads           *)
(* interleave exactly at the queue operations and around the callable.     *)
(* A blocking call is modelled by its outcome: it succeeds in a state      *)
(* where it can, and its timeout fires in a state where it still cannot.   *)
(***************************************************************************)
EXTENDS Integers, Sequences, FiniteSets, TLC

\* ------------------------------------------------------------------ bounds
MaxCap      == 2   \* queue_capacity is drawn from 1..MaxCap
MaxPoolSize == 2   \* pool_size is drawn from 1..MaxPoolSize
MaxJobs     == 2   \* jobs given to the pools in all, by sources and by add()
MaxFull     == 1   \* add() calls in all that end in Queue.Full
MaxRuns     == 1   \* run() calls per pool
MaxWaits    == 1   \* wait() calls in all
MaxForwards == 1   \* forward() calls in all
MaxDepth    == 1   \* a job's result is itself a job down to this depth

\* Three pools.  A is constructed with any arguments within the bounds; B and
\* C, the pools A can be chained to, are ThreadPool(pool_size=1,
\* queue_capacity=1).
Pools  == {"A", "B", "C"}
NPools == Cardinality(Pools)
None   == 0
\* The pools the callers of Spec use, and the forward() calls they make: A >> B.
Used   == {"A", "B"}
Chains == { << "A", "B" >> }
\* The chain expression the callers of ChainSpec evaluate: A >> B >> C.
ChainExpr == << "A", "B", "C" >>

\* The Queue made by __init__ for pool p; forward() makes the queues after
\* them: up to MaxForwards in Spec, one per >> of the chain in ChainSpec.
OwnQueue(p) == IF p = "A" THEN 1 ELSE IF p = "B" THEN 2 ELSE 3
QueueIds    == 1..(NPools + MaxForwards + Len(ChainExpr) - 2)

\* ------------------------------------------------------------------- items
\* What travels through a queue.  ok = TRUE: a job triple (callback, args,
\* kwargs); ok = FALSE: any other value.  origin/pool/n say where the item
\* came from (the n-th add() on a pool, or the n-th item of its source), and
\* depth counts how many callables were run to produce it.
Items == [origin : {"add", "src"}, pool : Pools, n : 1..MaxJobs,
          depth : 0..(MaxDepth + 1), ok : BOOLEAN]

AddJob(p, k) == [origin |-> "add", pool |-> p, n |-> k, depth |-> 0, ok |-> TRUE]
SrcItem(p, k, wellFormed) ==
    [origin |-> "src", pool |-> p, n |-> k, depth |-> 0, ok |-> wellFormed]
\* The value returned by the callable of job j.
Result(j, isJob) == [j EXCEPT !.depth = j.depth + 1, !.ok = isJob]

\* The sources a pool can be constructed with: None, or an iterator over up to
\* MaxJobs items of which at most one is not a job triple.  All the iterators
\* together yield at most MaxJobs items.
SourceSeqs(p) ==
    { [k \in 1..len |-> SrcItem(p, k, k # bad)] : len \in 0..MaxJobs, bad \in 0..MaxJobs }

RECURSIVE SumLen(_, _)
SumLen(seqs, ps) ==
    IF ps = {} THEN 0
    ELSE LET p == CHOOSE x \in ps : TRUE IN Len(seqs[p]) + SumLen(seqs, ps \ {p})

VARIABLES
    pool_size,        \* self._pool_size
    queue_capacity,   \* self._queue_capacity
    queue,            \* self._queue: the id of the pool's input Queue
    queue_out,        \* self._queue_out: a Queue id, or None
    has_source,       \* self._source is not None
    source,           \* the items the iterator self._source yields, in order
    source_pos,       \* how many of them it has yielded
    pool,             \* self._pool: the handles of the threads of the last run()
    start_time,       \* self._start_time (None until start())
    end_time,         \* self._end_time (None until finish())
    qitems,           \* Queue.queue of every Queue object
    maxsize,          \* Queue.maxsize
    unfinished_tasks, \* Queue.unfinished_tasks
    workers,          \* per pool, the threads running _thread_run
    consumers,        \* per pool, the threads running _consume
    nqueues,          \* number of Queue objects made by forward()
    calls,            \* per pool, the public calls made so far (bounds them)
    njobs,            \* jobs given to the pools so far (bounds them)
    hist              \* history: what happened to each item.  put, got, ran, done:
                      \* how often it was accepted by a queue, dequeued, called,
                      \* passed to task_done; raised: the jobs whose callable
                      \* raised; returned: the values returned to a worker whose
                      \* pool had a _queue_out; forwarded: the jobs whose value
                      \* was put on it; nran: the calls made by each pool;
                      \* at_wait: nran of the pool when its wait() returned;
                      \* acc, deq: per Queue, the items in the order they
                      \* were accepted and in the order they were dequeued;
                      \* fed: per pool, the source items in the order its
                      \* consumer threads got them accepted

vars == << pool_size, queue_capacity, queue, queue_out, has_source, source, source_pos,
           pool, start_time, end_time, qitems, maxsize, unfinished_tasks,
           workers, consumers, nqueues, calls, njobs, hist >>

\* --------------------------------------------------------- history helpers
\* A bag as a function from the items seen so far to how often.
Count(bag, x) == IF x \in DOMAIN bag THEN bag[x] ELSE 0
Inc(bag, x) ==
    [y \in DOMAIN bag \cup {x} |-> IF y = x THEN Count(bag, x) + 1 ELSE bag[y]]
EmptyBag == [x \in {} |-> 0]

\* ------------------------------------------------------------ Queue.Queue
\* Queue.full(): put blocks (and after the timeout raises Full) while this holds.
full_off_by_one(q) == Len(qitems[q]) > maxsize[q]
full(q) == Len(qitems[q]) >= maxsize[q]
\* Queue.empty(): get blocks (and after the timeout raises Empty) while this holds.
empty_always(q) == TRUE
empty(q) == Len(qitems[q]) = 0
\* Queue._put
_put_drop(items, item) == IF items = << >> THEN Append(items, item) ELSE items
_put(items, item) == Append(items, item)
\* Queue._get: the item taken and the items left
_get_item_last(items) == items[Len(items)]
_get_item(items) == Head(items)
_get_rest_peek(items) == items
_get_rest(items) == Tail(items)
\* Queue.join returns when this holds
all_tasks_done_empty(q) == empty(q)
all_tasks_done(q) == unfinished_tasks[q] = 0

\* ------------------------------------------------------------------ threads
\* A thread running _thread_run.  pc is where it stands:
\*   "get"      at self._queue.get(timeout)                        (line 174)
\*   "call"     holding a dequeued job, about to call it           (line 177)
\*   "put"      holding the job's result, at self._queue_out.put   (line 179)
\*   "finally"  at self._queue.task_done(); exc says whether an
\*              exception is on its way out of the try block       (line 181)
\*   "stopped"  left the loop on Empty                             (line 184)
\*   "dead"     ended by an exception no handler caught
\* from is history: the queue the held job was dequeued from.
NewWorker == [pc |-> "get", job |-> << >>, result |-> << >>, exc |-> FALSE,
              from |-> None]
\* A thread running _consume.  pc: "next" (at the for loop), "add" (at
\* self.add), "sleep" (at sleep(0.1) after Full), "returned", "dead".
NewConsumer == [pc |-> "next", job |-> << >>]

Live(w) == w.pc \notin {"stopped", "dead"}

TypeOK ==
    /\ pool_size \in [Pools -> 1..MaxPoolSize]
    /\ queue_capacity \in [Pools -> 1..MaxCap]
    /\ queue \in [Pools -> QueueIds]
    /\ queue_out \in [Pools -> QueueIds \cup {None}]
    /\ has_source \in [Pools -> BOOLEAN]
    /\ \A p \in Pools : source[p] \in Seq(Items) /\ source_pos[p] \in 0..Len(source[p])
    /\ \A q \in QueueIds : qitems[q] \in Seq(Items)
    /\ maxsize \in [QueueIds -> 0..MaxCap]
    /\ unfinished_tasks \in [QueueIds -> Nat]
    /\ nqueues \in 0..(Cardinality(QueueIds) - NPools)

\* The state after the constructors: ThreadPool(pool_size, source, queue_capacity)
\* for every pool, source being None or an iterator.
Init ==
    /\ pool_size \in [Pools -> 1..MaxPoolSize]
    /\ queue_capacity \in [Pools -> 1..MaxCap]
    /\ \A p \in Pools \ {"A"} : pool_size[p] = 1 /\ queue_capacity[p] = 1
    /\ queue = [p \in Pools |-> OwnQueue(p)]
    /\ queue_out = [p \in Pools |-> None]
    /\ has_source \in [Pools -> BOOLEAN]
    /\ \A p \in Pools \ {"A"} : ~has_source[p]
    /\ source \in [Pools -> UNION {SourceSeqs(p) : p \in Pools}]
    /\ \A p \in Pools : /\ source[p] \in SourceSeqs(p)
                        /\ ~has_source[p] => source[p] = << >>
    /\ SumLen(source, Pools) <= MaxJobs
    /\ njobs = SumLen(source, Pools)
    /\ source_pos = [p \in Pools |-> 0]
    /\ pool = [p \in Pools |-> << >>]
    /\ start_time = [p \in Pools |-> None]
    /\ end_time = [p \in Pools |-> None]
    /\ qitems = [q \in QueueIds |-> << >>]
    /\ maxsize = [q \in QueueIds |->
                    IF \E p \in Pools : OwnQueue(p) = q
                    THEN queue_capacity[CHOOSE p \in Pools : OwnQueue(p) = q]
                    ELSE 0]
    /\ unfinished_tasks = [q \in QueueIds |-> 0]
    /\ workers = [p \in Pools |-> << >>]
    /\ consumers = [p \in Pools |-> << >>]
    /\ nqueues = 0
    /\ calls = [p \in Pools |-> [add |-> 0, full |-> 0, run |-> 0, wait |-> 0]]
    /\ hist = [put |-> EmptyBag, got |-> EmptyBag, ran |-> EmptyBag, done |-> EmptyBag,
               raised |-> {}, returned |-> {}, forwarded |-> {},
               nran |-> [p \in Pools |-> 0],
               at_wait |-> [p \in Pools |-> << >>],
               acc |-> [q \in QueueIds |-> << >>],
               deq |-> [q \in QueueIds |-> << >>],
               fed |-> [p \in Pools |-> << >>]]

\* Queue.put(item), accepted: the queues after it.
PutItems(q, item) == [qitems EXCEPT ![q] = _put(qitems[q], item)]
PutUnfinished(q)  == [unfinished_tasks EXCEPT ![q] = @ + 1]

\* How often the public call op was made, on all pools together.
RECURSIVE SumCalls(_, _, _)
SumCalls(c, op, ps) ==
    IF ps = {} THEN 0
    ELSE LET p == CHOOSE x \in ps : TRUE IN c[p][op] + SumCalls(c, op, ps \ {p})
Total(c, op) == SumCalls(c, op, Pools)

\* ------------------------------------------------------------- add (80-83)
\* self._queue.put((callback, args, kwargs), timeout): accepted.
add(p) ==
    /\ njobs < MaxJobs
    /\ njobs' = njobs + 1
    /\ ~full(queue[p])
    /\ LET job == AddJob(p, calls[p].add + 1) IN
         /\ qitems' = PutItems(queue[p], job)
         /\ unfinished_tasks' = PutUnfinished(queue[p])
         /\ hist' = [hist EXCEPT !.put = Inc(@, job),
                                 !.acc[queue[p]] = Append(@, job)]
    /\ calls' = [calls EXCEPT ![p].add = @ + 1]
    /\ UNCHANGED << pool_size, queue_capacity, queue, queue_out, has_source, source, source_pos,
                    pool, start_time, end_time, maxsize, workers, consumers,
                    nqueues >>

\* The put timed out with the queue still full: Queue.Full reaches the caller.
addFull(p) ==
    /\ Total(calls, "full") < MaxFull
    /\ full(queue[p])
    /\ calls' = [calls EXCEPT ![p].full = @ + 1]
    /\ UNCHANGED << pool_size, queue_capacity, queue, queue_out, has_source, source, source_pos,
                    pool, start_time, end_time, qitems, maxsize,
                    unfinished_tasks, workers, consumers, nqueues, hist, njobs >>

\* datetime.now(): a pool's timestamps are only compared with each other, so
\* the time is told by the pool's own run() and wait() calls so far.
now(p) == calls[p].run + calls[p].wait + 1

\* ------------------------------------------------------------ run (91-101)
\* start(), then _build_pool() and, with a source, the consumer thread.  The
\* threads of an earlier run() keep running; self._pool only forgets them.
Spawned_one(p) == << NewWorker >>
Spawned_extra(p) == [i \in 1..(pool_size[p] + 1) |-> NewWorker]
Spawned(p) == [i \in 1..pool_size[p] |-> NewWorker]
run(p) ==
    /\ calls[p].run < MaxRuns
    /\ start_time' = [start_time EXCEPT ![p] = now(p)]
    /\ workers' = [workers EXCEPT ![p] = @ \o Spawned(p)]
    /\ consumers' = [consumers EXCEPT ![p] =
                        IF has_source[p] THEN Append(@, NewConsumer) ELSE @]
    /\ pool' = [pool EXCEPT ![p] =
                    [i \in 1..pool_size[p] |-> << "worker", Len(workers[p]) + i >>]
                    \o (IF has_source[p]
                        THEN << << "consumer", Len(consumers[p]) + 1 >> >>
                        ELSE << >>)]
    /\ calls' = [calls EXCEPT ![p].run = @ + 1]
    /\ UNCHANGED << pool_size, queue_capacity, queue, queue_out, has_source, source, source_pos,
                    end_time, qitems, maxsize, unfinished_tasks, nqueues, hist, njobs >>

\* ------------------------------------------------------------ wait (85-89)
\* self._queue.join() returns once unfinished_tasks is 0; finish() then sets
\* _end_time (and its log line fails on a pool that was never started).
wait(p) ==
    /\ Total(calls, "wait") < MaxWaits
    /\ all_tasks_done(queue[p])
    /\ end_time' = [end_time EXCEPT ![p] = now(p)]
    /\ calls' = [calls EXCEPT ![p].wait = @ + 1]
    /\ hist' = [hist EXCEPT !.at_wait[p] = << hist.nran[p] >>]
    /\ UNCHANGED << pool_size, queue_capacity, queue, queue_out, has_source, source,
                    source_pos, pool, start_time, qitems, maxsize, unfinished_tasks,
                    workers, consumers, nqueues, njobs >>

\* ------------------------------------------- forward, set_source (110-125)
\* p.forward(o), also written p >> o and ThreadPool(source=p): a new Queue of
\* p's capacity becomes p's _queue_out and, through o.set_source, o's _queue.
NewQueue == NPools + nqueues + 1
\* return self
forward_returns(p, o) == p
forward_body(p, o) ==
    /\ nqueues' = nqueues + 1
    /\ maxsize' = [maxsize EXCEPT ![NewQueue] = queue_capacity[p]]
    /\ queue_out' = [queue_out EXCEPT ![p] = NewQueue]
    /\ queue' = [queue EXCEPT ![o] = NewQueue]
    /\ UNCHANGED << pool_size, queue_capacity, has_source, source, source_pos, pool, start_time,
                    end_time, qitems, unfinished_tasks, workers, consumers,
                    calls, hist, njobs >>
forward(p, o) ==
    /\ nqueues < MaxForwards
    /\ forward_body(p, o)

\* p1 >> p2 >> ... is (p1 >> p2) >> ...: the left operand of the k-th >> is
\* what the >> before it returned.
RECURSIVE ChainLeft(_)
ChainLeft(k) ==
    IF k = 1 THEN ChainExpr[1]
    ELSE forward_returns(ChainLeft(k - 1), ChainExpr[k])
\* The k-th >> of the chain expression.
rshift(k) ==
    /\ nqueues = k - 1
    /\ forward_body(ChainLeft(k), ChainExpr[k + 1])

\* -------------------------------------------------------- _consume (150-161)
SetConsumer(p, c, rec) == [consumers EXCEPT ![p][c] = rec]

\* len(job) == 3
IsTriple_any(item) == TRUE
IsTriple(item) == item.ok
\* What next() on the iterator yields.
NextItem(p) == source[p][source_pos[p] + 1]

\* for job in self._source: the next item, checked to be a triple; the end of
\* the iterator ends the thread, and so does the ValueError.
ConsumeNext(p, c) ==
    /\ c \in DOMAIN consumers[p]
    /\ consumers[p][c].pc = "next"
    /\ IF source_pos[p] = Len(source[p])
       THEN /\ consumers' = SetConsumer(p, c, [pc |-> "returned", job |-> << >>])
            /\ UNCHANGED source_pos
       ELSE /\ source_pos' = [source_pos EXCEPT ![p] = @ + 1]
            /\ consumers' = SetConsumer(p, c,
                   IF IsTriple(NextItem(p))
                   THEN [pc |-> "add", job |-> << NextItem(p) >>]
                   ELSE [pc |-> "dead", job |-> << >>])
    /\ UNCHANGED << pool_size, queue_capacity, queue, queue_out, has_source, source, pool,
                    start_time, end_time, qitems, maxsize, unfinished_tasks,
                    workers, nqueues, calls, hist, njobs >>

\* self.add(job[0], *job[1], **job[2]) accepted: break, on to the next item.
ConsumeAdd(p, c) ==
    /\ c \in DOMAIN consumers[p]
    /\ consumers[p][c].pc = "add"
    /\ ~full(queue[p])
    /\ LET job == consumers[p][c].job[1] IN
         /\ qitems' = PutItems(queue[p], job)
         /\ unfinished_tasks' = PutUnfinished(queue[p])
         /\ hist' = [hist EXCEPT !.put = Inc(@, job),
                                 !.acc[queue[p]] = Append(@, job),
                                 !.fed[p] = Append(@, job)]
    /\ consumers' = SetConsumer(p, c, [pc |-> "next", job |-> << >>])
    /\ UNCHANGED << pool_size, queue_capacity, queue, queue_out, has_source, source, source_pos,
                    pool, start_time, end_time, maxsize, workers, nqueues,
                    calls, njobs >>

\* except Full: sleep(0.1), and the item is kept for the retry.
OnFull_drop(rec) == [pc |-> "next", job |-> << >>]
OnFull(rec) == [rec EXCEPT !.pc = "sleep"]
ConsumeFull(p, c) ==
    /\ c \in DOMAIN consumers[p]
    /\ consumers[p][c].pc = "add"
    /\ full(queue[p])
    /\ consumers' = SetConsumer(p, c, OnFull(consumers[p][c]))
    /\ UNCHANGED << pool_size, queue_capacity, queue, queue_out, has_source, source, source_pos,
                    pool, start_time, end_time, qitems, maxsize,
                    unfinished_tasks, workers, nqueues, calls, hist, njobs >>

\* sleep(0.1) is over: around the while loop again.
ConsumeRetry(p, c) ==
    /\ c \in DOMAIN consumers[p]
    /\ consumers[p][c].pc = "sleep"
    /\ consumers' = SetConsumer(p, c, [consumers[p][c] EXCEPT !.pc = "add"])
    /\ UNCHANGED << pool_size, queue_capacity, queue, queue_out, has_source, source, source_pos,
                    pool, start_time, end_time, qitems, maxsize,
                    unfinished_tasks, workers, nqueues, calls, hist, njobs >>

\* ----------------------------------------------------- _thread_run (168-184)
SetWorker(p, i, rec) == [workers EXCEPT ![p][i] = rec]

\* Where a worker goes when the inner try block is left, with an exception on
\* its way (exc) or without: the finally clause runs either way.
AfterTry_no_finally(exc) == IF exc THEN "dead" ELSE "finally"
AfterTry(exc) == "finally"
\* Where it goes after the finally clause: an exception other than Empty is
\* not caught and ends the thread, otherwise the loop goes around.
AfterFinally_survive(exc) == "get"
AfterFinally(exc) == IF exc THEN "dead" ELSE "get"
\* Queue.task_done: the count after it, and whether it raises ValueError
\* ('task_done() called too many times') and leaves the count alone.
TaskDoneRaises(q) == unfinished_tasks[q] = 0
TaskDoneCount(q)  == IF TaskDoneRaises(q) THEN unfinished_tasks[q]
                     ELSE unfinished_tasks[q] - 1
\* The values the callable of job j can return: a job triple (while the depth
\* bound allows) or something that is no job.
Returns(j) == { Result(j, isJob) : isJob \in {b \in BOOLEAN : b => j.depth < MaxDepth} }

\* job = self._queue.get(timeout): an item is there.
Get(p, i) ==
    /\ i \in DOMAIN workers[p]
    /\ workers[p][i].pc = "get"
    /\ ~empty(queue[p])
    /\ LET job == _get_item(qitems[queue[p]]) IN
         /\ qitems' = [qitems EXCEPT ![queue[p]] = _get_rest(@)]
         /\ workers' = SetWorker(p, i, [workers[p][i] EXCEPT !.pc = "call",
                                                             !.job = << job >>,
                                                             !.from = queue[p]])
         /\ hist' = [hist EXCEPT !.got = Inc(@, job),
                                 !.deq[queue[p]] = Append(@, job)]
    /\ UNCHANGED << pool_size, queue_capacity, queue, queue_out, has_source, source, source_pos,
                    pool, start_time, end_time, maxsize, unfinished_tasks,
                    consumers, nqueues, calls, njobs >>

\* The get timed out on an empty queue: Empty, 'No jobs, quitting.', break.
GetEmpty(p, i) ==
    /\ i \in DOMAIN workers[p]
    /\ workers[p][i].pc = "get"
    /\ empty(queue[p])
    /\ workers' = SetWorker(p, i, [workers[p][i] EXCEPT !.pc = "stopped"])
    /\ UNCHANGED << pool_size, queue_capacity, queue, queue_out, has_source, source, source_pos,
                    pool, start_time, end_time, qitems, maxsize,
                    unfinished_tasks, consumers, nqueues, calls, hist, njobs >>

\* result = job[0](*job[1], **job[2]); if self._queue_out: ...
\* An item that is no triple raises before any callable runs; a callable
\* raises or returns; a returned value goes on to the put when the pool has a
\* _queue_out and is dropped when it has none.
Call(p, i) ==
    /\ i \in DOMAIN workers[p]
    /\ workers[p][i].pc = "call"
    /\ LET w   == workers[p][i]
           job == w.job[1]
       IN
         \/ /\ ~job.ok
            /\ workers' = SetWorker(p, i, [w EXCEPT !.pc = AfterTry(TRUE), !.exc = TRUE])
            /\ UNCHANGED hist
         \/ /\ job.ok
            /\ workers' = SetWorker(p, i, [w EXCEPT !.pc = AfterTry(TRUE), !.exc = TRUE])
            /\ hist' = [hist EXCEPT !.ran = Inc(@, job),
                                    !.nran[p] = @ + 1,
                                    !.raised = @ \cup {job}]
         \/ /\ job.ok
            /\ queue_out[p] = None
            /\ workers' = SetWorker(p, i, [w EXCEPT !.pc = AfterTry(FALSE)])
            /\ hist' = [hist EXCEPT !.ran = Inc(@, job), !.nran[p] = @ + 1]
         \/ /\ job.ok
            /\ queue_out[p] # None
            /\ \E r \in Returns(job) :
                 /\ workers' = SetWorker(p, i, [w EXCEPT !.pc = "put",
                                                         !.result = << r >>])
                 /\ hist' = [hist EXCEPT !.ran = Inc(@, job),
                                         !.nran[p] = @ + 1,
                                         !.returned = @ \cup {r}]
    /\ UNCHANGED << pool_size, queue_capacity, queue, queue_out, has_source, source, source_pos,
                    pool, start_time, end_time, qitems, maxsize,
                    unfinished_tasks, consumers, nqueues, calls, njobs >>

\* self._queue_out.put(result, timeout): accepted.
Put(p, i) ==
    /\ i \in DOMAIN workers[p]
    /\ workers[p][i].pc = "put"
    /\ ~full(queue_out[p])
    /\ LET w == workers[p][i] IN
         /\ qitems' = PutItems(queue_out[p], w.result[1])
         /\ unfinished_tasks' = PutUnfinished(queue_out[p])
         /\ workers' = SetWorker(p, i, [w EXCEPT !.pc = AfterTry(FALSE),
                                                 !.result = << >>])
         /\ hist' = [hist EXCEPT !.put = Inc(@, w.result[1]),
                                 !.acc[queue_out[p]] = Append(@, w.result[1]),
                                 !.forwarded = @ \cup {w.job[1]}]
    /\ UNCHANGED << pool_size, queue_capacity, queue, queue_out, has_source, source, source_pos,
                    pool, start_time, end_time, maxsize, consumers, nqueues,
                    calls, njobs >>

\* The put timed out with _queue_out still full: Full leaves the try block
\* and the result goes with it.
PutFull(p, i) ==
    /\ i \in DOMAIN workers[p]
    /\ workers[p][i].pc = "put"
    /\ full(queue_out[p])
    /\ workers' = SetWorker(p, i, [workers[p][i] EXCEPT !.pc = AfterTry(TRUE),
                                                        !.exc = TRUE,
                                                        !.result = << >>])
    /\ UNCHANGED << pool_size, queue_capacity, queue, queue_out, has_source, source, source_pos,
                    pool, start_time, end_time, qitems, maxsize,
                    unfinished_tasks, consumers, nqueues, calls, hist, njobs >>

\* finally: self._queue.task_done(), on the queue self._queue names now.
TaskDone(p, i) ==
    /\ i \in DOMAIN workers[p]
    /\ workers[p][i].pc = "finally"
    /\ LET w == workers[p][i]
           q == queue[p]
       IN
         /\ unfinished_tasks' = [unfinished_tasks EXCEPT ![q] = TaskDoneCount(q)]
         /\ workers' = SetWorker(p, i,
                [pc |-> AfterFinally(w.exc \/ TaskDoneRaises(q)),
                 job |-> << >>, result |-> << >>, exc |-> FALSE, from |-> None])
         /\ hist' = [hist EXCEPT !.done = Inc(@, w.job[1])]
    /\ UNCHANGED << pool_size, queue_capacity, queue, queue_out, has_source, source, source_pos,
                    pool, start_time, end_time, qitems, maxsize, consumers,
                    nqueues, calls, njobs >>

\* ---------------------------------------------------------------- the system
\* The threads a pool can have had: pool_size workers and one consumer per run().
WorkerIds   == 1..(MaxPoolSize * MaxRuns)
ConsumerIds == 1..MaxRuns

Next ==
    \/ \E p \in Used : add(p)
    \/ \E p \in Used : addFull(p)
    \/ \E p \in Used : run(p)
    \/ \E p \in Used : wait(p)
    \/ \E c \in Chains : forward(c[1], c[2])
    \/ \E p \in Pools : \E i \in WorkerIds : Get(p, i)
    \/ \E p \in Pools : \E i \in WorkerIds : GetEmpty(p, i)
    \/ \E p \in Pools : \E i \in WorkerIds : Call(p, i)
    \/ \E p \in Pools : \E i \in WorkerIds : Put(p, i)
    \/ \E p \in Pools : \E i \in WorkerIds : PutFull(p, i)
    \/ \E p \in Pools : \E i \in WorkerIds : TaskDone(p, i)
    \/ \E p \in Pools : \E c \in ConsumerIds : ConsumeNext(p, c)
    \/ \E p \in Pools : \E c \in ConsumerIds : ConsumeAdd(p, c)
    \/ \E p \in Pools : \E c \in ConsumerIds : ConsumeFull(p, c)
    \/ \E p \in Pools : \E c \in ConsumerIds : ConsumeRetry(p, c)

Spec == Init /\ [][Next]_vars

\* Every started thread keeps running: it takes the step it stands at, a
\* blocked get or put ending with its timeout when nothing else ends it.  The
\* callers of the public operations are under no obligation.
WorkerStep(p, i) ==
    \/ Get(p, i)
    \/ GetEmpty(p, i)
    \/ Call(p, i)
    \/ Put(p, i)
    \/ PutFull(p, i)
    \/ TaskDone(p, i)
ConsumerStep(p, c) ==
    \/ ConsumeNext(p, c)
    \/ ConsumeAdd(p, c)
    \/ ConsumeFull(p, c)
    \/ ConsumeRetry(p, c)
Fairness ==
    /\ \A p \in Pools : \A i \in WorkerIds : WF_vars(WorkerStep(p, i))
    /\ \A p \in Pools : \A c \in ConsumerIds : WF_vars(ConsumerStep(p, c))
\* The behaviours checked for liveness start from the configurations in
\* which A has one worker and a source of at most one item.
FairInit == Init /\ pool_size["A"] = 1 /\ Len(source["A"]) <= 1
FairSpec == FairInit /\ [][Next]_vars /\ Fairness

\* The three-stage pipeline: A, B and C with one worker and a queue of one
\* item each, the chain expression evaluated, jobs added at the head of the
\* chain, every pool run.
ChainInit ==
    /\ Init
    /\ pool_size["A"] = 1
    /\ queue_capacity["A"] = 1
    /\ ~has_source["A"]
ChainNext ==
    \/ \E k \in 1..(Len(ChainExpr) - 1) : rshift(k)
    \/ add(ChainExpr[1])
    \/ \E p \in Pools : run(p)
    \/ \E p \in Pools : \E i \in WorkerIds : Get(p, i)
    \/ \E p \in Pools : \E i \in WorkerIds : GetEmpty(p, i)
    \/ \E p \in Pools : \E i \in WorkerIds : Call(p, i)
    \/ \E p \in Pools : \E i \in WorkerIds : Put(p, i)
    \/ \E p \in Pools : \E i \in WorkerIds : PutFull(p, i)
    \/ \E p \in Pools : \E i \in WorkerIds : TaskDone(p, i)
ChainSpec == ChainInit /\ [][ChainNext]_vars

\* ===================================================================== claims
Range(seq) == { seq[k] : k \in DOMAIN seq }
AllWorkers == { << p, i >> \in Pools \X WorkerIds : i \in DOMAIN workers[p] }
WorkerOf(t) == workers[t[1]][t[2]]
\* The workers that hold a dequeued item: between the get and the task_done.
Holding == { t \in AllWorkers : WorkerOf(t).pc \in {"call", "put", "finally"} }
\* The items seen so far.
Seen == DOMAIN hist.put
\* The jobs whose returned value their worker went on to put on _queue_out.
Offered == { j \in DOMAIN hist.ran : \E r \in hist.returned : r = Result(j, r.ok) }

\* C1: no job accepted into an input queue is executed more than once: an
\* item is accepted once, dequeued by at most one worker (once), its callable
\* is called at most once, and once dequeued it is on no queue again, whether
\* or not the callable failed.
C1_AtMostOnce ==
    /\ \A j \in Seen : /\ hist.put[j] = 1
                       /\ Count(hist.got, j) <= 1
                       /\ Count(hist.ran, j) <= 1
                       /\ Cardinality({ t \in Holding : WorkerOf(t).job = << j >> }) <= 1
    /\ \A j \in DOMAIN hist.got : \A q \in QueueIds : j \notin Range(qitems[q])
    /\ DOMAIN hist.ran \subseteq DOMAIN hist.got
    /\ DOMAIN hist.got \subseteq Seen

\* Two workers of one pool hold a job each, and the callable of one of the
\* two jobs has failed.
C1_Witness ==
    \E t1, t2 \in Holding :
        /\ t1[1] = t2[1]
        /\ t1[2] # t2[2]
        /\ WorkerOf(t1).pc = "finally"
        /\ WorkerOf(t1).job[1] \in hist.raised

\* The jobs add() can have built.
AddJobs == { AddJob(p, k) : p \in Pools, k \in 1..MaxJobs }
Accepted(j) == Count(hist.put, j) >= 1
Executed(j) == Count(hist.ran, j) >= 1
\* Job j sits on a queue that no live worker reads: the queue is the input
\* queue of no pool, or every worker of the pools it is the input queue of has
\* left its loop or died.
Stranded(j) ==
    \E q \in QueueIds :
        /\ j \in Range(qitems[q])
        /\ \A t \in AllWorkers : queue[t[1]] = q => ~Live(WorkerOf(t))

C3_Capacity ==
    \A p \in Pools : Len(qitems[queue[p]]) <= queue_capacity[p]

FedBySourceOnly(p) ==
    /\ has_source[p]
    /\ \A k \in DOMAIN source[p] : IsTriple(source[p][k])
    /\ calls[p].add = 0
    /\ queue[p] = OwnQueue(p)
    /\ queue_out[p] = None
    /\ hist.raised = {}
C5_AllSourceJobsRun ==
    \A p \in Pools :
        /\ FedBySourceOnly(p)
        /\ start_time[p] # None
        /\ end_time[p] # None
        /\ end_time[p] > start_time[p]
        => hist.at_wait[p][1] = Len(source[p])

\* C6: A forwarded to B before A ran anything, both run, A's source
\* exhausted, every job of A returned a job triple, B fed by nothing else:
\* once every thread has ended, B has made as many calls as A.
AllThreadsEnded ==
    /\ \A t \in AllWorkers : ~Live(WorkerOf(t))
    /\ \A p \in Pools : \A c \in DOMAIN consumers[p] :
          consumers[p][c].pc \in {"returned", "dead"}
Pipeline(a, b) ==
    /\ queue_out[a] # None
    /\ queue[b] = queue_out[a]
    /\ calls[a].run >= 1
    /\ calls[b].run >= 1
    /\ calls[b].add = 0
    /\ has_source[a]
    /\ Len(source[a]) >= 1
    /\ source_pos[a] = Len(source[a])
    /\ \A k \in DOMAIN source[a] : IsTriple(source[a][k])
    /\ hist.raised = {}
    /\ \A j \in DOMAIN hist.ran : j.depth = 0 => Result(j, TRUE) \in hist.returned
C6_PipelineCounts ==
    \A c \in Chains :
        Pipeline(c[1], c[2]) /\ AllThreadsEnded => hist.nran[c[2]] = hist.nran[c[1]]

\* C7: whenever a job whose value was returned to a worker of a pool with a
\* _queue_out has been passed to task_done, the value has been put on that
\* queue.
C7_NoResultLost ==
    \A j \in Offered : Count(hist.done, j) >= 1 => j \in hist.forwarded

\* C8: a queue's unfinished count is the number of items queued on it plus
\* the number of items dequeued from it that a worker still holds.
C8_InFlight ==
    \A q \in QueueIds :
        unfinished_tasks[q] =
            Len(qitems[q]) + Cardinality({ t \in Holding : WorkerOf(t).from = q })

\* C9: task_done is invoked exactly once for every dequeued item, whatever
\* became of it (the callable returned, the callable failed, the put of its
\* value raised Full): not before the worker is through with it, once when
\* it is, and never for anything that was not dequeued.
C9_MarkDoneOnce ==
    /\ DOMAIN hist.done \subseteq DOMAIN hist.got
    /\ \A j \in DOMAIN hist.got :
          Count(hist.done, j) =
              IF \E t \in Holding : WorkerOf(t).job = << j >> THEN 0 ELSE 1

\* The put of a job's value raised Full, the job was passed to task_done,
\* and a worker has left its loop on Empty.
C9_Witness ==
    /\ \E j \in Offered : j \notin hist.forwarded /\ Count(hist.done, j) = 1
    /\ \E t \in AllWorkers : WorkerOf(t).pc = "stopped"

\* C10: an add() that ends in Full found the input queue at capacity and
\* leaves every queue and every unfinished count as they were; an add() is
\* accepted only below capacity, and Full is raised only at capacity.
C10_AddFull ==
    [][ \A p \in Pools :
          /\ calls'[p].full # calls[p].full
             => /\ Len(qitems[queue[p]]) = maxsize[queue[p]]
                /\ qitems' = qitems
                /\ unfinished_tasks' = unfinished_tasks
                /\ calls'[p].add = calls[p].add
          /\ calls'[p].add # calls[p].add
             => /\ Len(qitems[queue[p]]) < maxsize[queue[p]]
                /\ Len(qitems'[queue[p]]) = Len(qitems[queue[p]]) + 1
                /\ Len(qitems'[queue[p]]) <= maxsize[queue[p]] ]_vars

\* On a pool no worker consumes from, queue_capacity adds were accepted and
\* the next one ended in Full.
C10_Witness ==
    \E p \in Pools : /\ calls[p].run = 0
                     /\ queue[p] = OwnQueue(p)
                     /\ calls[p].add = queue_capacity[p]
                     /\ calls[p].full = 1
                     /\ Len(qitems[queue[p]]) = queue_capacity[p]

\* The source items of pool p among the items a queue accepted, in order.
FromSource(p, seq) == SelectSeq(seq, LAMBDA x : x.origin = "src" /\ x.pool = p)
\* The consumer threads of pool p that hold an item they took from the source.
Feeding(p) == { c \in DOMAIN consumers[p] : consumers[p][c].pc \in {"add", "sleep"} }
\* The consumer threads of pool p that the ValueError ended.
Failed(p) == { c \in DOMAIN consumers[p] : consumers[p][c].pc = "dead" }

\* C11: a consumer thread that holds a source item keeps that item, through
\* every Queue.Full, until the input queue accepts it, and only then takes
\* the next one; so, for the consumer thread of a pool run once, the source
\* items accepted are a prefix of the source in source order, each accepted
\* exactly once, with nothing the consumer took left out but the item it
\* still holds (and, per C12, an item that is no job triple).
C11_Step ==
    \A p \in Pools : \A c \in DOMAIN consumers[p] :
        LET old == consumers[p][c]
            new == consumers'[p][c]
        IN  /\ (old.pc \in {"add", "sleep"} /\ new # old)
               => \/ /\ new.pc \in {"add", "sleep"}
                     /\ new.job = old.job
                     /\ hist'.fed = hist.fed
                  \/ /\ new.pc = "next"
                     /\ hist'.fed[p] = Append(hist.fed[p], old.job[1])
                     /\ qitems'[queue[p]] = Append(qitems[queue[p]], old.job[1])
            /\ (old.pc = "next" /\ new.pc \in {"add", "sleep"})
               => /\ source_pos'[p] = source_pos[p] + 1
                  /\ new.job = << source[p][source_pos'[p]] >>
C11_Prefix ==
    \A p \in Pools :
        calls[p].run <= 1 =>
            /\ Len(hist.fed[p]) <= Len(source[p])
            /\ hist.fed[p] = SubSeq(source[p], 1, Len(hist.fed[p]))
            /\ \A k \in DOMAIN hist.fed[p] : hist.put[hist.fed[p][k]] = 1
            /\ Len(hist.fed[p]) =
                  source_pos[p] - Cardinality(Feeding(p)) - Cardinality(Failed(p))
            /\ \A c \in Feeding(p) :
                  consumers[p][c].job = << source[p][source_pos[p]] >>
            /\ queue[p] = OwnQueue(p)
               => FromSource(p, hist.acc[queue[p]]) = hist.fed[p]
C11_ConsumerKeepsOrder == []C11_Prefix /\ [][C11_Step]_vars

\* The consumer of a pool met Queue.Full with the second item of its source
\* after the first was accepted, and sleeps holding it.
C11_Witness ==
    \E p \in Pools : \E c \in DOMAIN consumers[p] :
        /\ consumers[p][c].pc = "sleep"
        /\ Len(source[p]) = 2
        /\ consumers[p][c].job = << source[p][2] >>
        /\ hist.fed[p] = << source[p][1] >>
        /\ full(queue[p])

\* C12: a source item that is no job triple is never enqueued.  On a pool run
\* once the iterator is never advanced past such an item, so no later source
\* item is enqueued either; once the ValueError has ended the consumer
\* thread, exactly the items before the malformed one have been accepted,
\* each of them still queued or dequeued by a worker, and the thread takes no
\* further step.  The step that ends the thread touches no queue.
C12_Inv ==
    /\ \A j \in Seen : (j.origin = "src" /\ j.depth = 0) => j.ok
    /\ \A p \in Pools :
          calls[p].run <= 1 =>
             \A k \in DOMAIN source[p] :
                ~source[p][k].ok =>
                   /\ source_pos[p] <= k
                   /\ \A k2 \in k..Len(source[p]) : source[p][k2] \notin Seen
                   /\ Failed(p) # {} =>
                         /\ source_pos[p] = k
                         /\ hist.fed[p] = SubSeq(source[p], 1, k - 1)
                         /\ \A k1 \in 1..(k - 1) :
                               \/ \E q \in QueueIds : source[p][k1] \in Range(qitems[q])
                               \/ Count(hist.got, source[p][k1]) = 1
C12_Step ==
    \A p \in Pools : \A c \in DOMAIN consumers[p] :
        /\ consumers[p][c].pc = "dead" => consumers'[p][c] = consumers[p][c]
        /\ (consumers[p][c].pc # "dead" /\ consumers'[p][c].pc = "dead")
           => /\ consumers[p][c].pc = "next"
              /\ source_pos[p] < Len(source[p])
              /\ ~source[p][source_pos[p] + 1].ok
              /\ qitems' = qitems
              /\ unfinished_tasks' = unfinished_tasks
              /\ hist' = hist
C12_MalformedStopsFeeding == []C12_Inv /\ [][C12_Step]_vars

\* The second item of a source is no job triple: the consumer thread has
\* failed on it, and the first item has been accepted and executed.
C12_Witness ==
    \E p \in Pools :
        /\ Failed(p) # {}
        /\ Len(source[p]) = 2
        /\ ~source[p][2].ok
        /\ Count(hist.ran, source[p][1]) = 1
        /\ Count(hist.done, source[p][1]) = 1

\* A Source was configured for pool p: an iterator (kept in _source), or a
\* Queue or another pool (set_source then replaced the pool's _queue).
SourceConfigured(p) == has_source[p] \/ queue[p] # OwnQueue(p)
\* What a run() step on pool p does, with one more consumer thread if withConsumer.
RunSpawns(p, withConsumer) ==
    /\ Len(workers'[p]) = Len(workers[p]) + pool_size[p]
    /\ \A i \in DOMAIN workers[p] : workers'[p][i] = workers[p][i]
    /\ \A i \in (DOMAIN workers'[p]) \ (DOMAIN workers[p]) : workers'[p][i] = NewWorker
    /\ Len(consumers'[p]) = Len(consumers[p]) + (IF withConsumer THEN 1 ELSE 0)
    /\ Len(pool'[p]) = pool_size[p] + (IF withConsumer THEN 1 ELSE 0)

C14_Monotonic ==
    [][ \A p \in Pools :
          /\ workers[p] # << >> => Len(workers'[p]) = Len(workers[p])
          /\ start_time[p] # None => start_time'[p] = start_time[p]
          /\ end_time[p] # None => end_time'[p] = end_time[p]
          /\ end_time'[p] # None
             => /\ start_time'[p] # None
                /\ end_time'[p] >= start_time'[p] ]_vars

\* The chain expression has been evaluated.
ChainBuilt == nqueues = Len(ChainExpr) - 1
\* C15: after A >> B >> C the output queue of every stage but the last is
\* the input queue of the next stage, and a stage after the first executes
\* only what the stage before it returned: it has made no more calls than
\* that stage.
C15_ThreeStage ==
    ChainBuilt =>
        \A k \in 1..(Len(ChainExpr) - 1) :
            /\ queue_out[ChainExpr[k]] # None
            /\ queue_out[ChainExpr[k]] = queue[ChainExpr[k + 1]]
            /\ hist.nran[ChainExpr[k + 1]] <= hist.nran[ChainExpr[k]]

\* The number of workers of pool p, in the worker table ws, still in their loop.
LiveCount(ws, p) == Cardinality({ i \in DOMAIN ws[p] : Live(ws[p][i]) })
\* C16: the worker whose job's callable failed takes one more step, the
\* task_done of the finally clause, and is dead after it: the pool has one
\* live worker less.  A worker that is dead or stopped never moves again, and
\* only run() raises the number of live workers.  The failure and the death
\* leave the items of every queue and every other worker as they were, and
\* the failed job was called once and is on no queue again.
C16_WorkerDies ==
    [][ /\ \A p \in Pools :
             /\ LiveCount(workers', p) > LiveCount(workers, p)
                => calls'[p].run = calls[p].run + 1
             /\ \A i \in DOMAIN workers[p] :
                  LET old == workers[p][i]
                      new == workers'[p][i]
                      others == \A t \in AllWorkers :
                                  t # << p, i >> => workers'[t[1]][t[2]] = WorkerOf(t)
                  IN  /\ ~Live(old) => new = old
                      /\ (old.pc = "finally" /\ old.exc /\ new # old)
                         => /\ new.pc = "dead"
                            /\ LiveCount(workers', p) = LiveCount(workers, p) - 1
                            /\ qitems' = qitems
                            /\ others
                      /\ (old.pc = "call" /\ new.exc)
                         => /\ new.pc = "finally"
                            /\ new.job = old.job
                            /\ qitems' = qitems
                            /\ unfinished_tasks' = unfinished_tasks
                            /\ others
        /\ \A j \in hist.raised :
             /\ Count(hist'.ran, j) = 1
             /\ Count(hist'.got, j) = 1
             /\ \A q \in QueueIds : j \notin Range(qitems'[q]) ]_vars

\* On a pool of two workers that forwards nothing and was given job triples
\* only, the callable of one job failed and its worker is dead; the other
\* worker has run another job without a failure and is still alive.
C16_Witness ==
    \E p \in Pools : \E i1, i2 \in DOMAIN workers[p] :
        /\ nqueues = 0
        /\ \A j \in Seen : j.ok
        /\ pool_size[p] = 2
        /\ workers[p][i1].pc = "dead"
        /\ Cardinality(hist.raised) = 1
        /\ \A j \in hist.raised : Count(hist.done, j) = 1
        /\ workers[p][i2].pc = "finally"
        /\ ~workers[p][i2].exc
        /\ workers[p][i2].job[1] \notin hist.raised
        /\ Count(hist.ran, workers[p][i2].job[1]) = 1

\* Every item the input queue of pool p accepted has been passed to
\* task_done and the queue's unfinished count is zero: a wait() returns.
Drained(p) ==
    /\ unfinished_tasks[queue[p]] = 0
    /\ \A j \in Range(hist.acc[queue[p]]) : Count(hist.done, j) >= 1
\* C17: on a running pool (run() was called and a worker is still in its
\* loop) that is not made part of a pipeline, whether or not callables fail,
\* every accepted job is eventually completed and the unfinished count of
\* the input queue reaches zero, so that a wait() returns.
C17_EventuallyDrained ==
    \A p \in Pools :
        [](calls[p].run >= 1 /\ LiveCount(workers, p) >= 1
           => <>(Drained(p) \/ nqueues > 0))

\* The input queue of pool p holds nothing.
EmptyInput(p) == Len(qitems[queue[p]]) = 0
\* Every worker of pool p has left its loop on Empty.
AllStopped(p) == \A i \in DOMAIN workers[p] : workers[p][i].pc = "stopped"
\* Every worker of pool p has left its loop on Empty or was ended by a failure.
AllTerminated(p) == \A i \in DOMAIN workers[p] : ~Live(workers[p][i])
\* A worker leaves its loop on Empty only from the get and only with the
\* input queue empty, and a stopped worker takes no step: it dequeues nothing.
C18_Step ==
    \A p \in Pools : \A i \in DOMAIN workers[p] :
        /\ (workers[p][i].pc # "stopped" /\ workers'[p][i].pc = "stopped")
           => /\ workers[p][i].pc = "get"
              /\ EmptyInput(p)
              /\ qitems' = qitems
              /\ hist' = hist
        /\ workers[p][i].pc = "stopped" => workers'[p][i] = workers[p][i]

\* C18 as stated: once the input queue of a pool is empty and stays empty,
\* every worker of the pool eventually is Stopped (has left its loop on
\* Empty); a worker stops only after a get on the empty queue, and a stopped
\* worker never dequeues again.
C18_AllStopped ==
    /\ \A p \in Pools : <>[]EmptyInput(p) => <>[]AllStopped(p)
    /\ [][C18_Step]_vars

\* C18 as amended: once the input queue of a pool is empty and stays empty,
\* every worker of the pool eventually has terminated, Stopped on Empty or
\* ended before by a failure; a worker stops only after a get on the empty
\* queue, and a stopped worker never dequeues again.
C18_AllTerminated ==
    /\ \A p \in Pools : <>[]EmptyInput(p) => <>[]AllTerminated(p)
    /\ [][C18_Step]_vars

\* A pool has run a job, its input queue is empty, and its workers have all
\* left their loops on Empty.
C18_Witness ==
    \E p \in Pools :
        /\ calls[p].run >= 1
        /\ hist.nran[p] >= 1
        /\ EmptyInput(p)
        /\ workers[p] # << >>
        /\ AllStopped(p)

\* The workers of pool p that hold a dequeued job.
HoldingIn(p) == { t \in Holding : t[1] = p }
\* The items dequeued and not yet passed to task_done.
InExecution == { j \in DOMAIN hist.got : Count(hist.done, j) = 0 }
\* C19: a worker holds one job between its get and its task_done and none
\* at its get or after it ended, so the items in execution are one per
\* holding worker, and on a pool run once at most pool_size workers hold a
\* job at the same time.
C19_OneAtATime ==
    /\ \A t \in AllWorkers :
          Len(WorkerOf(t).job) = (IF t \in Holding THEN 1 ELSE 0)
    /\ Cardinality(InExecution) = Cardinality(Holding)
    /\ \A j \in InExecution : \E t \in Holding : WorkerOf(t).job = << j >>
    /\ \A p \in Pools :
          calls[p].run <= 1 => Cardinality(HoldingIn(p)) <= pool_size[p]

\* Both workers of a pool of two, run once, hold a job at the same time.
C19_Witness ==
    \E p \in Pools :
        /\ pool_size[p] = 2
        /\ calls[p].run = 1
        /\ Cardinality(HoldingIn(p)) = 2
        /\ Cardinality(InExecution) = 2

\* C20: every Queue is FIFO: the items dequeued from it so far, by whichever
\* workers, are in the order of their dequeuing the first of the items it
\* accepted, in the order it accepted them, and it holds the rest in that
\* order.
C20_Fifo ==
    \A q \in QueueIds : hist.acc[q] = hist.deq[q] \o qitems[q]

\* Two workers of a pool dequeued two jobs, and the job dequeued second was
\* completed while the worker of the first still holds it.
C20_Witness ==
    \E p \in Pools : \E t \in HoldingIn(p) :
        LET q == queue[p] IN
        /\ Len(hist.deq[q]) = 2
        /\ hist.deq[q] = hist.acc[q]
        /\ WorkerOf(t).job = << hist.deq[q][1] >>
        /\ Count(hist.done, hist.deq[q][2]) = 1

====
